---- MODULE Spec2Model ----
(***************************************************************************)
(* A model of scripts/update-prompts.py: main, encode_prompts and          *)
(* update_env_file.                                                         *)
(*                                                                          *)
(* Text is a sequence of tokens.  A token is one character, written as a   *)
(* one-character string, except that each of the two marker texts is one   *)
(* token: a marker text can occur in a file only as a whole, so the Python *)
(* test `MARKER in text` is "the token occurs in the sequence".            *)
(***************************************************************************)
EXTENDS Integers, Sequences, FiniteSets, TLC

VARIABLES
    env_file,      \* the target file: [exists, content]
    prompts_file,  \* prompts.yaml: [exists, doc], doc being what yaml.safe_load returns
    pc,            \* where the script is: "idle", "checked", "encoded", "done", "failed"
    prompt_lines,  \* main's local prompt_lines
    exit_code,     \* the exit status of the last invocation
    stderr,        \* what the last invocation wrote to the error stream
    writes,        \* how often the current invocation wrote the target file
    target_read,   \* the current invocation read the target file (line 48)
    trail,         \* history: the target's contents around the latest updates with one list of lines
    trail_lines,   \* history: the list of lines of the updates in trail
    init_one_each  \* history: the initial target held each sentinel line at most once

vars == <<env_file, prompts_file, pc, prompt_lines, exit_code, stderr, writes,
          target_read, trail, trail_lines, init_one_each>>

----------------------------------------------------------------------------
(* Bounds *)

MaxLines == 4
MaxTrail == 4

----------------------------------------------------------------------------
(* Constants of the script *)

START_MARKER == "# --- AUTO-GENERATED PROMPTS START (DO NOT EDIT MANUALLY) ---"
END_MARKER == "# --- AUTO-GENERATED PROMPTS END ---"

NL == "\n"

----------------------------------------------------------------------------
(* Python's string operations, on token sequences *)

\* `sub in text`, for a one-token sub
Contains(text, sub) == \E i \in 1..Len(text) : text[i] = sub

\* text.endswith("\n")
EndsWithNL(text) == Len(text) > 0 /\ text[Len(text)] = NL

\* text.split("\n"): the pieces between the newlines; "" gives [""]
RECURSIVE Split(_)
Split(text) ==
    IF ~Contains(text, NL) THEN <<text>>
    ELSE LET i == CHOOSE k \in 1..Len(text) :
                      text[k] = NL /\ \A j \in 1..(k-1) : text[j] # NL
         IN <<SubSeq(text, 1, i-1)>> \o Split(SubSeq(text, i+1, Len(text)))

\* "\n".join(pieces)
RECURSIVE Join(_)
Join(pieces) ==
    IF pieces = <<>> THEN <<>>
    ELSE IF Len(pieces) = 1 THEN pieces[1]
    ELSE pieces[1] \o <<NL>> \o Join(Tail(pieces))

\* c.upper(), on the characters the keys are made of
Upper(c) ==
    CASE c = "a" -> "A"
      [] c = "b" -> "B"
      [] c = "p" -> "P"
      [] OTHER -> c

\* key.upper().replace("-", "_")
EnvKey(key) ==
    [i \in 1..Len(key) |-> IF Upper(key[i]) = "-" THEN "_" ELSE Upper(key[i])]

\* str.encode(): the UTF-8 bytes of a sequence of code points below 2048
RECURSIVE Utf8(_)
Utf8(cps) ==
    IF cps = <<>> THEN <<>>
    ELSE LET cp == Head(cps)
         IN (IF cp < 128 THEN <<cp>>
             ELSE <<192 + (cp \div 64), 128 + (cp % 64)>>) \o Utf8(Tail(cps))

B64Alphabet ==
    << "A","B","C","D","E","F","G","H","I","J","K","L","M","N","O","P",
       "Q","R","S","T","U","V","W","X","Y","Z","a","b","c","d","e","f",
       "g","h","i","j","k","l","m","n","o","p","q","r","s","t","u","v",
       "w","x","y","z","0","1","2","3","4","5","6","7","8","9","+","/" >>

B64Char(n) == B64Alphabet[n + 1]

\* base64.b64encode(bytes).decode(): three bytes to four characters, "=" padded
RECURSIVE B64Encode(_)
B64Encode(bytes) ==
    IF bytes = <<>> THEN <<>>
    ELSE IF Len(bytes) = 1 THEN
        LET n == bytes[1] * 65536
        IN <<B64Char(n \div 262144), B64Char((n \div 4096) % 64), "=", "=">>
    ELSE IF Len(bytes) = 2 THEN
        LET n == bytes[1] * 65536 + bytes[2] * 256
        IN <<B64Char(n \div 262144), B64Char((n \div 4096) % 64),
             B64Char((n \div 64) % 64), "=">>
    ELSE
        LET n == bytes[1] * 65536 + bytes[2] * 256 + bytes[3]
        IN <<B64Char(n \div 262144), B64Char((n \div 4096) % 64),
             B64Char((n \div 64) % 64), B64Char(n % 64)>>
           \o B64Encode(SubSeq(bytes, 4, Len(bytes)))

----------------------------------------------------------------------------
(* encode_prompts *)

\* A loaded document is [mapping, items]: mapping is FALSE for a document
\* that is no mapping (an empty prompts.yaml loads as None); items are the
\* mapping's [key, value] pairs in order, a value being [str, chars] with
\* str FALSE for a value that is no string (`retries: 3` loads as an int).

\* f"{env_key}={encoded}" for one item
EncodeItem(item) ==
    EnvKey(item.key) \o <<"=">> \o B64Encode(Utf8(item.value.chars))

\* prompts.items() exists only on a mapping, value.encode() only on a str:
\* anything else raises out of encode_prompts
EncodeRaises(doc) ==
    \/ ~doc.mapping
    \/ \E i \in 1..Len(doc.items) : ~doc.items[i].value.str

\* the list encode_prompts returns
encode_prompts(doc) == [i \in 1..Len(doc.items) |-> EncodeItem(doc.items[i])]

----------------------------------------------------------------------------
(* update_env_file *)

\* new_section: the markers around the prompt lines, joined by newlines
NewSection(lines) == Join(<<<<START_MARKER>>>> \o lines \o <<<<END_MARKER>>>>)

\* ReplaceLoop with `skip = True` left out at the start marker
RECURSIVE ReplaceLoopNoSkip(_, _, _, _)
ReplaceLoopNoSkip(lines, new_section, new_lines, skip) ==
    IF lines = <<>> THEN new_lines
    ELSE LET line == Head(lines)
         IN IF Contains(line, START_MARKER)
            THEN ReplaceLoopNoSkip(Tail(lines), new_section, Append(new_lines, new_section), skip)
            ELSE IF Contains(line, END_MARKER)
            THEN ReplaceLoopNoSkip(Tail(lines), new_section, new_lines, FALSE)
            ELSE IF ~skip
            THEN ReplaceLoopNoSkip(Tail(lines), new_section, Append(new_lines, line), skip)
            ELSE ReplaceLoopNoSkip(Tail(lines), new_section, new_lines, skip)

\* the loop over the file's lines, with its new_lines and skip
RECURSIVE ReplaceLoop(_, _, _, _)
ReplaceLoop(lines, new_section, new_lines, skip) ==
    IF lines = <<>> THEN new_lines
    ELSE LET line == Head(lines)
         IN IF Contains(line, START_MARKER)
            THEN ReplaceLoop(Tail(lines), new_section, Append(new_lines, new_section), TRUE)
            ELSE IF Contains(line, END_MARKER)
            THEN ReplaceLoop(Tail(lines), new_section, new_lines, FALSE)
            ELSE IF ~skip
            THEN ReplaceLoop(Tail(lines), new_section, Append(new_lines, line), skip)
            ELSE ReplaceLoop(Tail(lines), new_section, new_lines, skip)

\* NewContent with the test for the markers left out: the section is appended
NewContentAlwaysAppends(content, lines) ==
    (IF EndsWithNL(content) THEN content ELSE content \o <<NL>>)
    \o <<NL>> \o NewSection(lines) \o <<NL>>

\* new_content, from the content read and the prompt lines
NewContent(content, lines) ==
    LET new_section == NewSection(lines)
        has_start == Contains(content, START_MARKER)
        has_end == Contains(content, END_MARKER)
    IN IF has_start /\ has_end
       THEN Join(ReplaceLoop(Split(content), new_section, <<>>, FALSE))
       ELSE (IF EndsWithNL(content) THEN content ELSE content \o <<NL>>)
            \o <<NL>> \o new_section \o <<NL>>

----------------------------------------------------------------------------
(* The files the script is run on *)

\* the lines a target file is made of: an empty line, a line of other text,
\* each sentinel line, a sentinel line padded with a blank, and lines that
\* hold a marker text beside other text
LineKinds ==
    { <<>>, <<"x">>, <<START_MARKER>>, <<END_MARKER>>,
      <<"x", " ", END_MARKER>>, <<" ", START_MARKER>> }

RECURSIVE LineSeqs(_)
LineSeqs(n) ==
    IF n = 0 THEN { <<>> }
    ELSE LET shorter == LineSeqs(n - 1)
         IN shorter \cup { Append(s, k) : s \in { t \in shorter : Len(t) = n - 1 }, k \in LineKinds }

Contents == { Join(ls) : ls \in LineSeqs(MaxLines) }

EnvFiles ==
    { [exists |-> TRUE, content |-> c] : c \in Contents }
    \cup { [exists |-> FALSE, content |-> <<>>] }

Str(chars) == [str |-> TRUE, chars |-> chars]
NotStr == [str |-> FALSE, chars |-> <<>>]

\* prompts.yaml as loaded: one item, two items, an item whose value is a
\* number, and an empty file
Docs ==
    { [mapping |-> TRUE,
       items |-> << [key |-> <<"a", "-", "b">>, value |-> Str(<<97>>)] >>],
      [mapping |-> TRUE,
       items |-> << [key |-> <<"p">>, value |-> Str(<<>>)],
                    [key |-> <<"a", "-", "b">>, value |-> Str(<<233, 98, 97>>)] >>],
      [mapping |-> TRUE,
       items |-> << [key |-> <<"p">>, value |-> Str(<<98>>)],
                    [key |-> <<"b">>, value |-> NotStr] >>],
      [mapping |-> FALSE, items |-> <<>>] }

PromptsFiles ==
    { [exists |-> TRUE, doc |-> d] : d \in Docs }
    \cup { [exists |-> FALSE, doc |-> [mapping |-> FALSE, items |-> <<>>]] }

----------------------------------------------------------------------------
(* Sentinel lines, as the specification defines them *)

\* line.strip(), for blanks
RECURSIVE Trim(_)
Trim(line) ==
    IF line = <<>> THEN line
    ELSE IF Head(line) = " " THEN Trim(Tail(line))
    ELSE IF line[Len(line)] = " " THEN Trim(SubSeq(line, 1, Len(line) - 1))
    ELSE line

IsSentinel(line, marker) == Trim(line) = <<marker>>

SentinelLines(content, marker) ==
    LET ls == Split(content) IN { i \in 1..Len(ls) : IsSentinel(ls[i], marker) }

AtMostOneEach(content) ==
    /\ Cardinality(SentinelLines(content, START_MARKER)) <= 1
    /\ Cardinality(SentinelLines(content, END_MARKER)) <= 1

----------------------------------------------------------------------------
(* The script *)

SourceMissing == "Error: prompts.yaml not found"
TargetMissing == "Error: env file not found"
Traceback == "Traceback"

Init ==
    /\ env_file \in EnvFiles
    /\ prompts_file \in PromptsFiles
    /\ pc = "idle"
    /\ prompt_lines = <<>>
    /\ exit_code = 0
    /\ stderr = ""
    /\ writes = 0
    /\ target_read = FALSE
    /\ trail = IF env_file.exists THEN <<env_file.content>> ELSE <<>>
    /\ trail_lines = <<>>
    /\ init_one_each = (env_file.exists /\ AtMostOneEach(env_file.content))

\* Between two invocations somebody edits, removes or restores prompts.yaml.
EditPrompts ==
    /\ pc \in {"done", "failed"}
    /\ \E p \in PromptsFiles : p # prompts_file /\ prompts_file' = p
    /\ UNCHANGED <<env_file, pc, prompt_lines, exit_code, stderr, writes,
                   target_read, trail, trail_lines, init_one_each>>

\* main, lines 94-103: a new invocation checks that prompts.yaml exists
MainCheckSource ==
    /\ pc \in {"idle", "done", "failed"}
    /\ prompt_lines' = <<>>
    /\ writes' = 0
    /\ target_read' = FALSE
    /\ IF prompts_file.exists
       THEN pc' = "checked" /\ exit_code' = 0 /\ stderr' = ""
       ELSE pc' = "failed" /\ exit_code' = 1 /\ stderr' = SourceMissing
    /\ UNCHANGED <<env_file, prompts_file, trail, trail_lines, init_one_each>>

\* MainEncode with the entries that cannot be encoded skipped, not raised
MainEncodeSkipsBad ==
    /\ pc = "checked"
    /\ pc' = "encoded"
    /\ prompt_lines' =
           LET items == IF prompts_file.doc.mapping
                        THEN SelectSeq(prompts_file.doc.items, LAMBDA it : it.value.str)
                        ELSE <<>>
           IN [i \in 1..Len(items) |-> EncodeItem(items[i])]
    /\ UNCHANGED <<env_file, prompts_file, exit_code, stderr, writes, target_read,
                   trail, trail_lines, init_one_each>>

\* main, line 105: encode_prompts returns the lines or raises
MainEncode ==
    /\ pc = "checked"
    /\ IF EncodeRaises(prompts_file.doc)
       THEN pc' = "failed" /\ exit_code' = 1 /\ stderr' = Traceback
            /\ UNCHANGED prompt_lines
       ELSE pc' = "encoded" /\ prompt_lines' = encode_prompts(prompts_file.doc)
            /\ UNCHANGED <<exit_code, stderr>>
    /\ UNCHANGED <<env_file, prompts_file, writes, target_read, trail,
                   trail_lines, init_one_each>>

\* the history after an update from content `before` to `after` with `lines`
NextTrail(before, after, lines) ==
    IF Len(trail) >= 2 /\ trail_lines = lines
    THEN IF Len(trail) < MaxTrail THEN Append(trail, after)
         ELSE Append(Tail(trail), after)
    ELSE <<before, after>>

\* MainUpdate with the test that the target exists left out: a missing
\* target is read as empty and created by the write
MainUpdateCreates ==
    /\ pc = "encoded"
    /\ LET content == env_file.content
           new_content == NewContent(content, prompt_lines)
       IN /\ env_file' = [exists |-> TRUE, content |-> new_content]
          /\ writes' = writes + 1
          /\ target_read' = TRUE
          /\ trail' = NextTrail(content, new_content, prompt_lines)
          /\ trail_lines' = prompt_lines
          /\ pc' = "done" /\ exit_code' = 0 /\ stderr' = ""
    /\ UNCHANGED <<prompts_file, prompt_lines, init_one_each>>

\* main, line 106: update_env_file, the whole function
MainUpdate ==
    /\ pc = "encoded"
    /\ IF ~env_file.exists
       THEN /\ pc' = "failed" /\ exit_code' = 1 /\ stderr' = TargetMissing
            /\ UNCHANGED <<env_file, writes, target_read, trail, trail_lines>>
       ELSE LET content == env_file.content
                new_content == NewContent(content, prompt_lines)
            IN /\ env_file' = [exists |-> TRUE, content |-> new_content]
               /\ writes' = writes + 1
               /\ target_read' = TRUE
               /\ trail' = NextTrail(content, new_content, prompt_lines)
               /\ trail_lines' = prompt_lines
               /\ pc' = "done" /\ exit_code' = 0 /\ stderr' = ""
    /\ UNCHANGED <<prompts_file, prompt_lines, init_one_each>>

Next == EditPrompts \/ MainCheckSource \/ MainEncode \/ MainUpdate

Spec == Init /\ [][Next]_vars

----------------------------------------------------------------------------
(* The vocabulary of the claims *)

\* the content update_env_file read in the latest update
Before == trail[Len(trail) - 1]

HasSentinel(content, marker) == SentinelLines(content, marker) # {}

\* some start sentinel line lies strictly before some end sentinel line
WellFormed(content) ==
    \E i \in SentinelLines(content, START_MARKER),
       j \in SentinelLines(content, END_MARKER) : i < j

\* exactly one of the two sentinels is in the content
OneSentinelOnly(content) ==
    HasSentinel(content, START_MARKER) # HasSentinel(content, END_MARKER)

\* both sentinels, each once, the end sentinel line first
OutOfOrder(content) ==
    /\ Cardinality(SentinelLines(content, START_MARKER)) = 1
    /\ Cardinality(SentinelLines(content, END_MARKER)) = 1
    /\ ~WellFormed(content)

\* one managed block: each sentinel line once, the start sentinel line first
OneBlock(content) ==
    /\ Cardinality(SentinelLines(content, START_MARKER)) = 1
    /\ Cardinality(SentinelLines(content, END_MARKER)) = 1
    /\ WellFormed(content)

\* neither sentinel is in the content
Absent(content) ==
    ~HasSentinel(content, START_MARKER) /\ ~HasSentinel(content, END_MARKER)

\* a line that holds a marker text beside other text that is not blank
Impure(line) ==
    /\ Contains(line, START_MARKER) \/ Contains(line, END_MARKER)
    /\ ~IsSentinel(line, START_MARKER)
    /\ ~IsSentinel(line, END_MARKER)

\* the content with its one block's inside replaced by the lines
BlockReplaced(content, lines) ==
    LET ls == Split(content)
        s == CHOOSE i \in SentinelLines(content, START_MARKER) : TRUE
        e == CHOOSE j \in SentinelLines(content, END_MARKER) : TRUE
    IN Join(SubSeq(ls, 1, s - 1) \o <<<<START_MARKER>>>> \o lines
            \o <<<<END_MARKER>>>> \o SubSeq(ls, e + 1, Len(ls)))

\* the lines of a content: none for the empty content, and a final newline
\* ends the last line rather than starting another
LinesOf(content) ==
    IF content = <<>> THEN <<>>
    ELSE IF EndsWithNL(content)
    THEN SubSeq(Split(content), 1, Len(Split(content)) - 1)
    ELSE Split(content)

\* the content, one blank line, the block, and one final newline
BlockAppended(content, lines) ==
    Join(LinesOf(content) \o << <<>>, <<START_MARKER>> >> \o lines
         \o << <<END_MARKER>>, <<>> >>)

----------------------------------------------------------------------------
(* The claims *)

\* C1: idempotence on a well-formed block.  When the target held a start
\* sentinel line before an end sentinel line and the script is run twice
\* with the same prompt lines, the second run leaves the content of the
\* first.
C1_Idempotent ==
    (Len(trail) >= 3 /\ WellFormed(trail[1])) => trail[3] = trail[2]

C1_Witness ==
    /\ target_read
    /\ Len(trail) >= 3
    /\ OneBlock(trail[1])
    /\ trail_lines # <<>>
    /\ trail[2] # trail[1]
    /\ env_file.content = trail[2]

\* C2: a target with exactly one of the two sentinels makes the run fail
\* with a reported error, and the target is not written: its content is what
\* it was.
C2_SingleSentinelRefused ==
    (target_read /\ OneSentinelOnly(Before)) =>
        /\ exit_code = 1
        /\ stderr # ""
        /\ writes = 0
        /\ env_file.content = Before

\* C3: a target whose end sentinel line comes before its start sentinel line
\* makes the run fail, and the target is not written: no line of it is
\* removed or changed.
C3_OutOfOrderRefused ==
    (target_read /\ OutOfOrder(Before)) =>
        /\ exit_code = 1
        /\ writes = 0
        /\ env_file.content = Before

\* C4: replacement.  On a target with one well-formed block the content
\* written is the lines before the start sentinel, the start sentinel, the
\* prompt lines, the end sentinel, and the lines after the end sentinel, the
\* final newline as it was.
C4_Replacement ==
    (target_read /\ OneBlock(Before)) =>
        env_file.content = BlockReplaced(Before, trail_lines)

\* C5: absence.  On a target with neither sentinel the content written is
\* the prior content, one blank line, the block, and one final newline.
C5_AbsentAppends ==
    (target_read /\ Absent(Before)) =>
        env_file.content = BlockAppended(Before, trail_lines)

\* C6: whole-line matching.  A line that holds a marker text beside other
\* text is ordinary content: the run keeps it.
C6_ImpureLineKept ==
    target_read =>
        \A i \in 1..Len(Split(Before)) :
            Impure(Split(Before)[i]) =>
                \E j \in 1..Len(Split(env_file.content)) :
                    Split(env_file.content)[j] = Split(Before)[i]

\* C7: a missing target.  When update_env_file runs and the target does not
\* exist, the run fails with exit code 1 and the error reported, nothing is
\* written, and the target still does not exist.
C7_MissingTarget ==
    [][ (pc = "encoded" /\ ~env_file.exists) =>
            /\ pc' = "failed"
            /\ exit_code' = 1
            /\ stderr' = TargetMissing
            /\ writes' = 0
            /\ ~env_file'.exists ]_vars

C7_Witness ==
    pc = "failed" /\ stderr = TargetMissing /\ exit_code = 1 /\ ~env_file.exists

\* C8: all or nothing.  The target is written at most once in a run, and
\* only after prompts.yaml was found and every entry encoded; a run that
\* fails on a missing prompts.yaml or in the encoding leaves the target as
\* it was.
C8_AllOrNothing ==
    [][ /\ (env_file' # env_file \/ writes' > writes) =>
               /\ pc = "encoded" /\ pc' = "done"
               /\ writes = 0 /\ writes' = 1
               /\ prompts_file.exists
               /\ ~EncodeRaises(prompts_file.doc)
               /\ prompt_lines = encode_prompts(prompts_file.doc)
        /\ (pc = "idle" \/ pc = "done" \/ pc = "failed") /\ pc' # pc /\ ~prompts_file.exists =>
               pc' = "failed"
        /\ (pc = "checked" /\ EncodeRaises(prompts_file.doc)) => pc' = "failed"
        /\ (pc' = "failed" /\ stderr' \in {SourceMissing, Traceback}) =>
               /\ env_file' = env_file
               /\ writes' = 0
               /\ exit_code' = 1 ]_vars

C8_Witness ==
    /\ pc = "failed"
    /\ stderr = Traceback
    /\ prompts_file.doc.mapping
    /\ Len(prompts_file.doc.items) = 2
    /\ env_file.exists
    /\ writes = 0
    /\ Len(trail) >= 2
    /\ env_file.content = trail[Len(trail)]

\* C9: at most one block.  When the initial target holds each sentinel line
\* at most once, so does the target after any number of runs.
C9_AtMostOneBlock ==
    (init_one_each /\ env_file.exists) => AtMostOneEach(env_file.content)

\* C10: convergence.  After a run the target holds both marker texts, so
\* every later run replaces; and of three runs with the same prompt lines
\* the third leaves the content of the second, whatever the target held
\* before the first.
C10_Converges ==
    /\ \A k \in 2..Len(trail) :
           Contains(trail[k], START_MARKER) /\ Contains(trail[k], END_MARKER)
    /\ Len(trail) >= 4 => trail[4] = trail[3]
    /\ (env_file.exists /\ trail # <<>>) => env_file.content = trail[Len(trail)]

C10_Witness ==
    /\ target_read
    /\ Len(trail) = 4
    /\ trail[2] # trail[1]
    /\ trail[3] # trail[2]
    /\ trail[4] = trail[3]
    /\ env_file.content = trail[4]

====
